---- MODULE Spec2Model ----
(***************************************************************************)
(* Template materialization pipeline of create-react-vite-boilerplate:     *)
(*   - the template builder   (scripts/build-template.js)                  *)
(*   - the project generator  (bin/cli.js)                                 *)
(*   - the test harness       (scripts/test-cli.js)                        *)
(* All work on one file system.  A path is the sequence of its             *)
(* components from the file-system root; the tool is installed in /pkg     *)
(* (rootDir), its template lives in /pkg/template (templateDir), and the   *)
(* generator is started from /pkg (as the test harness does) or from /work.*)
(***************************************************************************)
EXTENDS Naturals, Sequences, FiniteSets, TLC

VARIABLES
    fs,         \* the file system: path -> node
    bpc,        \* builder: "idle", "copy", "process", "done", "failed"
    bstack,     \* builder: call stack of copyDirectory, innermost frame first
    listed,     \* builder: directories read with readdirSync in this build
    buildLog,   \* builder: console lines of this build, <<kind, relative path>>
    bexit,      \* builder: exit code of the last build ("none" while running)
    builds,     \* number of builds started
    gpc,        \* generator: position in createProject
    inv,        \* generator: the invocation (cwd, argument, options)
    projectName,\* generator: local variable projectName
    config,     \* generator: the config object
    projectPath,\* generator: local variable projectPath
    pcwd,       \* generator: process.cwd()
    before,     \* generator: the file system when the run started
    genLog,     \* generator: console / spinner lines of this run
    cmds,       \* generator: subprocesses run, <<command, cwd>>
    gexit,      \* generator: exit code of the run ("none" until it ends)
    hpc,        \* test harness: position in testCLI
    hlog,       \* test harness: console lines
    hexit,      \* test harness: exit code ("none" until the process ends)
    rpc,        \* second generator process: position in createProject
    rlog        \* second generator process: console / spinner lines

bvars == <<bpc, bstack, listed, buildLog, bexit, builds>>
gvars == <<gpc, inv, projectName, config, projectPath, pcwd, before, genLog, cmds, gexit>>
hvars == <<hpc, hlog, hexit>>
rvars == <<rpc, rlog>>
vars == <<fs, bpc, bstack, listed, buildLog, bexit, builds,
          gpc, inv, projectName, config, projectPath, pcwd, before, genLog, cmds, gexit,
          hpc, hlog, hexit, rpc, rlog>>

(***************************************************************************)
(* Bounds                                                                  *)
(***************************************************************************)
MaxBuilds == 2

(***************************************************************************)
(* File-system nodes and JSON documents                                    *)
(***************************************************************************)
Dir == [kind |-> "dir", json |-> FALSE, text |-> "", obj |-> <<>>, fmt |-> "",
        target |-> <<>>]

\* a regular file holding the text t
File(t) == [kind |-> "file", json |-> FALSE, text |-> t, obj |-> <<>>, fmt |-> "",
            target |-> <<>>]

\* a regular file holding the JSON object o (an ordered list of <<key, value>>),
\* laid out as fmt: "source" (hand-written) or "indent2" (JSON.stringify(o, null, 2))
JsonFile(o, f) == [kind |-> "file", json |-> TRUE, text |-> "", obj |-> o, fmt |-> f,
                   target |-> <<>>]

\* a symbolic link to the path t
Link(t) == [kind |-> "link", json |-> FALSE, text |-> "", obj |-> <<>>, fmt |-> "",
            target |-> t]

Str(s) == [tag |-> "str", s |-> s, m |-> <<>>]
Map(m) == [tag |-> "map", s |-> "", m |-> m]
Other(s) == [tag |-> "other", s |-> s, m |-> <<>>]
JsTrue == [tag |-> "bool", s |-> "true", m |-> <<>>]

\* keys of an ordered key/value list
Keys(o) == {o[i][1] : i \in 1..Len(o)}

HasKey(o, k) == k \in Keys(o)

Get(o, k) == o[CHOOSE i \in 1..Len(o) : o[i][1] = k][2]

\* JavaScript `delete o.k`: the property goes, the others keep their order
RECURSIVE DeleteKey(_, _)
DeleteKey(o, k) ==
    IF o = <<>> THEN <<>>
    ELSE IF Head(o)[1] = k THEN DeleteKey(Tail(o), k)
         ELSE <<Head(o)>> \o DeleteKey(Tail(o), k)

\* JavaScript `o.k = v`: an existing property keeps its place, a new one is added last
SetKey(o, k, v) ==
    IF HasKey(o, k)
    THEN [i \in 1..Len(o) |-> IF o[i][1] = k THEN <<k, v>> ELSE o[i]]
    ELSE Append(o, <<k, v>>)

(***************************************************************************)
(* Paths                                                                   *)
(***************************************************************************)
rootDir == <<"pkg">>

templateDir == rootDir \o <<"template">>

IsPrefix(p, q) == Len(p) <= Len(q) /\ SubSeq(q, 1, Len(p)) = p

\* path.join(dir, item)
Join(dir, rel) == dir \o rel

\* path.relative(basePath, filePath), for filePath below basePath
Relative(basePath, filePath) == SubSeq(filePath, Len(basePath) + 1, Len(filePath))

\* path.basename(filePath)
Basename(filePath) == filePath[Len(filePath)]

\* fs.existsSync(p)
Exists(f, p) == p \in DOMAIN f

IsDirectory(f, p) == Exists(f, p) /\ f[p].kind = "dir"

\* fs.statSync(p) throws: p is a symbolic link to a path that does not exist
StatThrows(f, p) == f[p].kind = "link" /\ f[p].target \notin DOMAIN f

\* what fs.statSync(p) describes and fs.copyFileSync(p, ...) reads: the entry
\* itself, or for a symbolic link the entry it points to
Stat(f, p) == IF f[p].kind = "link" THEN f[f[p].target] ELSE f[p]

\* the entry p and everything below it
Subtree(f, p) == {q \in DOMAIN f : IsPrefix(p, q)}

\* fs.removeSync(p)
RemoveSync(f, p) == [q \in DOMAIN f \ Subtree(f, p) |-> f[q]]

\* write (create or replace) the node n at p
WriteNode(f, p, n) == [q \in DOMAIN f \cup {p} |-> IF q = p THEN n ELSE f[q]]

\* the order in which readdirSync returns the entries of a directory
NameOrder ==
    << ".env", ".env.example", ".git", ".gitignore", ".storybook", "README.md",
       "app", "app.tsx", "bin", "build", "build-template.js", "cli.js", "dep.js",
       "dist", "docs", "index.html", "linked.ts", "main.ts", "main.tsx",
       "manager-head.html", "missing.ts", "my app",
       "my-app", "node_modules", "old.txt", "package.json", "scripts", "src",
       "tailwind.config.cjs", "template", "test-cli-project", "vite.config.ts" >>

\* fs.readdirSync(dir): the names of the entries of dir, in directory order
ReadDir(f, dir) ==
    SelectSeq(NameOrder, LAMBDA n : (dir \o <<n>>) \in DOMAIN f)


\* the generator's variables while no generator process exists
NoInvocation ==
    [cwd |-> <<>>, arg |-> "", skipInstall |-> FALSE, skipGit |-> FALSE,
     packageManager |-> ""]

NoConfig ==
    [packageManager |-> "", installDependencies |-> FALSE,
     initializeGit |-> FALSE, setupEnvironment |-> FALSE]

\* faulty variant of excludePatterns: the output directory is not in the list
excludePatterns_NoTemplate ==
    << <<"node_modules">>, <<"dist">>, <<"build">>, <<".git">>, <<".env">>,
       <<".env.local">>, <<".env.development.local">>, <<".env.test.local">>,
       <<".env.production.local">>, <<"yarn.lock">>, <<"package-lock.json">>,
       <<"pnpm-lock.yaml">>, <<".DS_Store">>, <<"Thumbs.db">>, <<"npm-debug.log">>,
       <<"yarn-debug.log">>, <<"yarn-error.log">>, <<"lerna-debug.log">>,
       <<"coverage">>, <<".nyc_output">>, <<"playwright-report">>,
       <<"test-results">>, <<"storybook-static">>,
       <<".storybook", "manager-head.html">>, <<"bin">>, <<"scripts">> >>

(***************************************************************************)
(* Template builder: scripts/build-template.js                             *)
(***************************************************************************)
\* the exclusion rules, each as the components of the pattern string
excludePatterns ==
    << <<"node_modules">>, <<"dist">>, <<"build">>, <<".git">>, <<".env">>,
       <<".env.local">>, <<".env.development.local">>, <<".env.test.local">>,
       <<".env.production.local">>, <<"yarn.lock">>, <<"package-lock.json">>,
       <<"pnpm-lock.yaml">>, <<".DS_Store">>, <<"Thumbs.db">>, <<"npm-debug.log">>,
       <<"yarn-debug.log">>, <<"yarn-error.log">>, <<"lerna-debug.log">>,
       <<"coverage">>, <<".nyc_output">>, <<"playwright-report">>,
       <<"test-results">>, <<"storybook-static">>,
       <<".storybook", "manager-head.html">>, <<"bin">>, <<"scripts">>,
       <<"template">> >>

\* relativePath.startsWith(pattern + '/')
StartsWithDir(relativePath, pattern) ==
    Len(relativePath) > Len(pattern) /\ IsPrefix(pattern, relativePath)

\* faulty variant of PatternMatches: the base-name rule is forgotten
PatternMatches_NoBasename(pattern, filePath, basePath) ==
    LET relativePath == Relative(basePath, filePath) IN
        \/ relativePath = pattern
        \/ StartsWithDir(relativePath, pattern)

\* one rule against one entry; no pattern holds a '*', so the glob branch of
\* shouldExclude is never taken
PatternMatches(pattern, filePath, basePath) ==
    LET relativePath == Relative(basePath, filePath) IN
        \/ relativePath = pattern
        \/ StartsWithDir(relativePath, pattern)
        \/ <<Basename(filePath)>> = pattern

shouldExclude(filePath, basePath) ==
    \E i \in 1..Len(excludePatterns) :
        PatternMatches(excludePatterns[i], filePath, basePath)

\* faulty variant of CopyFileSync: the file is created but its content is not written
CopyFileSync_Empty(f, srcPath, destPath) == WriteNode(f, destPath, File(""))

\* fs.copyFileSync(srcPath, destPath)
CopyFileSync(f, srcPath, destPath) == WriteNode(f, destPath, Stat(f, srcPath))

\* a frame of copyDirectory(src, dest): entered = FALSE before lines 67-71 ran
Frame(src, dest) == [src |-> src, dest |-> dest, entered |-> FALSE, items |-> <<>>]

\* faulty variant of RemoveTemplate: the build is incremental
RemoveTemplate_Keeps(f) == f

\* buildTemplate, lines 302-305: an existing template directory is removed whole
RemoveTemplate(f) == IF Exists(f, templateDir) THEN RemoveSync(f, templateDir) ELSE f

\* buildTemplate, lines 298-309: remove the old template, call copyDirectory.
\* Builds belong to the release workflow and come before the generator runs.
StartBuild ==
    /\ builds' = builds + 1
    /\ fs' = RemoveTemplate(fs)
    /\ buildLog' = IF Exists(fs, templateDir) THEN {<<"Removed", <<>> >>} ELSE {}
    /\ bstack' = <<Frame(rootDir, templateDir)>>
    /\ listed' = {}
    /\ bexit' = "none"
    /\ bpc' = "copy"

\* a build started from the command line
BuildTemplateStart ==
    /\ bpc \in {"idle", "done", "failed"}
    /\ gpc = "idle"
    /\ hpc = "idle"
    /\ builds < MaxBuilds
    /\ StartBuild
    /\ UNCHANGED gvars
    /\ UNCHANGED hvars
    /\ UNCHANGED rvars

\* copyDirectory, lines 67-71: create dest, list src
CopyDirectoryEnter ==
    /\ bpc = "copy"
    /\ bstack # <<>>
    /\ ~ Head(bstack).entered
    /\ LET fr == Head(bstack) IN
        /\ fs' = IF Exists(fs, fr.dest) THEN fs ELSE WriteNode(fs, fr.dest, Dir)
        /\ bstack' = <<[fr EXCEPT !.entered = TRUE, !.items = ReadDir(fs', fr.src)]>>
                        \o Tail(bstack)
        /\ listed' = listed \cup {fr.src}
    /\ UNCHANGED <<bpc, buildLog, bexit, builds>>
    /\ UNCHANGED gvars
    /\ UNCHANGED hvars
    /\ UNCHANGED rvars

\* copyDirectory, lines 73-90: one turn of the loop over the items; a throwing
\* statSync ends the build in the catch of lines 321-324
CopyDirectoryItem ==
    /\ bpc = "copy"
    /\ bstack # <<>>
    /\ Head(bstack).entered
    /\ Head(bstack).items # <<>>
    /\ LET fr == Head(bstack)
           item == Head(fr.items)
           srcPath == Join(fr.src, <<item>>)
           destPath == Join(fr.dest, <<item>>)
           rest == <<[fr EXCEPT !.items = Tail(fr.items)]>> \o Tail(bstack)
       IN  IF shouldExclude(srcPath, rootDir)
           THEN /\ buildLog' = buildLog \cup {<<"Excluding", Relative(rootDir, srcPath)>>}
                /\ bstack' = rest
                /\ UNCHANGED fs
                /\ UNCHANGED <<bpc, bexit>>
           ELSE IF StatThrows(fs, srcPath)
           THEN /\ bpc' = "failed"
                /\ bexit' = 1
                /\ buildLog' = buildLog \cup {<<"Error building template", <<>> >>}
                /\ UNCHANGED <<fs, bstack>>
           ELSE IF Stat(fs, srcPath).kind = "dir"
           THEN /\ bstack' = <<Frame(srcPath, destPath)>> \o rest
                /\ UNCHANGED <<fs, buildLog, bpc, bexit>>
           ELSE /\ fs' = CopyFileSync(fs, srcPath, destPath)
                /\ buildLog' = buildLog \cup {<<"Copied", Relative(rootDir, srcPath)>>}
                /\ bstack' = rest
                /\ UNCHANGED <<bpc, bexit>>
    /\ UNCHANGED <<listed, builds>>
    /\ UNCHANGED gvars
    /\ UNCHANGED hvars
    /\ UNCHANGED rvars

\* copyDirectory, line 91: the loop is over, return to the caller; the outermost
\* return leads to line 313 of buildTemplate
CopyDirectoryReturn ==
    /\ bpc = "copy"
    /\ bstack # <<>>
    /\ Head(bstack).entered
    /\ Head(bstack).items = <<>>
    /\ bstack' = Tail(bstack)
    /\ bpc' = IF Tail(bstack) = <<>> THEN "process" ELSE "copy"
    /\ UNCHANGED <<fs, listed, buildLog, bexit, builds>>
    /\ UNCHANGED gvars
    /\ UNCHANGED hvars
    /\ UNCHANGED rvars

\* the devDependencies and scripts entries processTemplateFiles deletes
cliDependencies == <<"chalk", "commander", "fs-extra", "inquirer", "ora">>

cliScripts == <<"prepublishOnly", "build-template", "test-cli">>

\* delete m.k1; delete m.k2; ... on a nested map value
RECURSIVE DeleteKeys(_, _)
DeleteKeys(m, ks) ==
    IF ks = <<>> THEN m ELSE DeleteKeys(DeleteKey(m, Head(ks)), Tail(ks))

\* faulty variant of StripMap: the stripped map is added anew, after the other keys
StripMap_MovesLast(o, k, ks) ==
    IF HasKey(o, k) /\ Get(o, k).tag = "map"
    THEN Append(DeleteKey(o, k), <<k, Map(DeleteKeys(Get(o, k).m, ks))>>)
    ELSE o

\* `if (packageJson.k) { delete packageJson.k.x; ... }`
StripMap(o, k, ks) ==
    IF HasKey(o, k) /\ Get(o, k).tag = "map"
    THEN SetKey(o, k, Map(DeleteKeys(Get(o, k).m, ks)))
    ELSE o

\* faulty variant of RewriteManifest: `delete packageJson.files` is missing
RewriteManifest_KeepsFiles(packageJson) ==
    LET o1 == DeleteKey(packageJson, "bin")
        o2 == SetKey(o1, "name", Str("my-react-app"))
        o3 == SetKey(o2, "version", Str("0.1.0"))
        o4 == SetKey(o3, "private", JsTrue)
        o5 == StripMap(o4, "devDependencies", cliDependencies)
        o6 == StripMap(o5, "scripts", cliScripts)
    IN  o6

\* processTemplateFiles, lines 97-124: the rewritten package.json object
RewriteManifest(packageJson) ==
    LET o1 == DeleteKey(DeleteKey(packageJson, "bin"), "files")
        o2 == SetKey(o1, "name", Str("my-react-app"))
        o3 == SetKey(o2, "version", Str("0.1.0"))
        o4 == SetKey(o3, "private", JsTrue)
        o5 == StripMap(o4, "devDependencies", cliDependencies)
        o6 == StripMap(o5, "scripts", cliScripts)
    IN  o6

gitignoreContent == File("template .gitignore")

readmeContent == File("template README")

\* processTemplateFiles, lines 128-295: .gitignore and README.md are overwritten
WriteAuxiliaryFiles(f) ==
    WriteNode(WriteNode(f, Join(templateDir, <<".gitignore">>), gitignoreContent),
              Join(templateDir, <<"README.md">>), readmeContent)

\* faulty variant of JsonParseThrows: a parse error is swallowed
JsonParseThrows_Never(node) == FALSE

\* JSON.parse(fs.readFileSync(p, 'utf8')) throws on a file that holds no JSON
JsonParseThrows(node) == ~ node.json

\* whether the package.json of the template is looked at at all (line 96)
ManifestPresent(f, packageJsonPath) == Exists(f, packageJsonPath)

\* buildTemplate, lines 313-324: processTemplateFiles, then the success lines;
\* an exception of JSON.parse rejects buildTemplate() and the catch exits with 1
ProcessTemplateFiles ==
    /\ bpc = "process"
    /\ LET packageJsonPath == Join(templateDir, <<"package.json">>) IN
        IF ManifestPresent(fs, packageJsonPath) /\ JsonParseThrows(fs[packageJsonPath])
        THEN /\ bpc' = "failed"
             /\ bexit' = 1
             /\ buildLog' = buildLog \cup {<<"Error building template", <<>> >>}
             /\ UNCHANGED fs
        ELSE /\ fs' = WriteAuxiliaryFiles(
                        IF ManifestPresent(fs, packageJsonPath)
                        THEN WriteNode(fs, packageJsonPath,
                                 JsonFile(RewriteManifest(fs[packageJsonPath].obj), "indent2"))
                        ELSE fs)
             /\ buildLog' = buildLog \cup
                    (IF ManifestPresent(fs, packageJsonPath)
                     THEN {<<"Processed", <<"package.json">> >>} ELSE {})
                    \cup {<<"Created", <<".gitignore">> >>, <<"Created", <<"README.md">> >>,
                          <<"Template built successfully", <<>> >>}
             /\ bpc' = "done"
             /\ bexit' = 0
    /\ UNCHANGED <<bstack, listed, builds>>
    /\ UNCHANGED gvars
    /\ UNCHANGED hvars
    /\ UNCHANGED rvars


(***************************************************************************)
(* Project generator: bin/cli.js                                           *)
(***************************************************************************)
Letters ==
    {"a", "b", "c", "d", "e", "f", "g", "h", "i", "j", "k", "l", "m", "n", "o", "p",
     "q", "r", "s", "t", "u", "v", "w", "x", "y", "z",
     "A", "B", "C", "D", "E", "F", "G", "H", "I", "J", "K", "L", "M", "N", "O", "P",
     "Q", "R", "S", "T", "U", "V", "W", "X", "Y", "Z"}

Digits == {"0", "1", "2", "3", "4", "5", "6", "7", "8", "9"}

\* the character class [a-zA-Z0-9-_]
NameClass == Letters \cup Digits \cup {"-", "_"}

\* the characters of the names the model uses
Chars(name) ==
    CASE name = "my-app" -> <<"m", "y", "-", "a", "p", "p">>
      [] name = "test-cli-project" ->
            <<"t", "e", "s", "t", "-", "c", "l", "i", "-", "p", "r", "o", "j", "e", "c", "t">>
      [] name = "my app" -> <<"m", "y", " ", "a", "p", "p">>
      [] name = " " -> <<" ">>
      [] OTHER -> <<>>

\* String.prototype.trim
RECURSIVE TrimLeft(_)
TrimLeft(cs) == IF cs # <<>> /\ Head(cs) = " " THEN TrimLeft(Tail(cs)) ELSE cs

RECURSIVE TrimRight(_)
TrimRight(cs) ==
    IF cs # <<>> /\ cs[Len(cs)] = " " THEN TrimRight(SubSeq(cs, 1, Len(cs) - 1)) ELSE cs

Trim(cs) == TrimRight(TrimLeft(cs))

\* /^[a-zA-Z0-9-_]+$/.test(input)
MatchesNamePattern(cs) == cs # <<>> /\ \A i \in 1..Len(cs) : cs[i] \in NameClass

\* the validate callback of the name question, lines 47-55: "ok" stands for true
validate(input) ==
    IF Trim(Chars(input)) = <<>> THEN "Project name is required"
    ELSE IF ~ MatchesNamePattern(Chars(input))
         THEN "Project name can only contain letters, numbers, hyphens, and underscores"
         ELSE "ok"

\* what the user may type at the name question
NameInputs == {"my-app", "my app"}

\* the command lines: working directory, [project-name] ("" when absent), the two
\* flags, and the value given to --package-manager ("" when the option is absent)
Invocations ==
    [cwd : {<<"work">>}, arg : {"my-app"},
     skipInstall : BOOLEAN, skipGit : BOOLEAN, packageManager : {"", "yarn", "bun"}]
    \cup
    [cwd : {<<"work">>}, arg : {"", "my app"},
     skipInstall : BOOLEAN, skipGit : BOOLEAN, packageManager : {""}]
    \cup
    [cwd : {<<"pkg">>}, arg : {"test-cli-project"},
     skipInstall : BOOLEAN, skipGit : BOOLEAN, packageManager : {""}]

\* the default of the option declared on line 26: options.packageManager is 'npm'
\* when --package-manager is absent from the command line
OptionDefault(flag) == IF flag = "" THEN "npm" ELSE flag

\* the options object commander hands to the action, lines 25-29
Options(i) ==
    [packageManager |-> OptionDefault(i.packageManager),
     skipInstall |-> i.skipInstall, skipGit |-> i.skipGit]

\* faulty variant of StepAfter: dependencies are installed before git is initialized
StepAfter_InstallBeforeGit(step) ==
    CASE step = "check" -> "copy"
      [] step = "copy" -> "rename"
      [] step = "rename" -> "env"
      [] step = "env" -> "install"
      [] step = "install" -> "git"
      [] step = "git" -> "summary"
      [] step = "summary" -> "done"

\* the order of the steps of createProject, lines 104-196
StepAfter(step) ==
    CASE step = "check" -> "copy"
      [] step = "copy" -> "rename"
      [] step = "rename" -> "env"
      [] step = "env" -> "git"
      [] step = "git" -> "install"
      [] step = "install" -> "summary"
      [] step = "summary" -> "done"

\* faulty variant of OptionalCatch: the catch of an optional step throws again
OptionalCatch_Rethrows(step) == "failed"

\* the catch blocks of the optional steps (lines 155-157, 169-171, 188-192) only
\* report: the run goes on with the step after
OptionalCatch(step) == StepAfter(step)

\* lines 16-18: the module reads and parses the package.json of the tool when it
\* is loaded; readFileSync or JSON.parse throwing there ends the process
LoadFails(f) ==
    LET p == Join(rootDir, <<"package.json">>) IN
        ~ Exists(f, p) \/ JsonParseThrows(f[p])

\* the module is loaded and the program action starts createProject, line 31
StartGenerator(i) ==
    /\ inv' = i
    /\ projectName' = i.arg
    /\ pcwd' = i.cwd
    /\ gpc' = IF LoadFails(fs) THEN "crashed"
              ELSE IF i.arg = "" THEN "askName" ELSE "askOptions"
    /\ gexit' = IF LoadFails(fs) THEN 1 ELSE "none"
    /\ before' = fs
    /\ config' = NoConfig
    /\ projectPath' = <<>>
    /\ genLog' = {}
    /\ cmds' = <<>>
    /\ UNCHANGED fs

\* a run of the generator from the command line; it is run once, when no build is
\* under way
GenStart ==
    /\ gpc = "idle"
    /\ hpc = "idle"
    /\ bpc \in {"idle", "done", "failed"}
    /\ \E i \in Invocations : StartGenerator(i)
    /\ UNCHANGED bvars
    /\ UNCHANGED hvars
    /\ UNCHANGED rvars

\* create-react-vite-boilerplate my-app --skip-install --skip-git, typed in the
\* work directory after the builds
GenStartMinimal ==
    /\ gpc = "idle"
    /\ hpc = "idle"
    /\ bpc \in {"idle", "done", "failed"}
    /\ StartGenerator([cwd |-> <<"work">>, arg |-> "my-app", skipInstall |-> TRUE,
                       skipGit |-> TRUE, packageManager |-> ""])
    /\ UNCHANGED bvars
    /\ UNCHANGED hvars
    /\ UNCHANGED rvars

\* createProject, lines 40-59: the name question, asked again after a rejected input
AskName ==
    /\ gpc = "askName"
    /\ \E input \in NameInputs :
        IF validate(input) = "ok"
        THEN /\ projectName' = input
             /\ gpc' = "askOptions"
             /\ UNCHANGED genLog
        ELSE /\ genLog' = genLog \cup {<<"invalid", validate(input)>>}
             /\ UNCHANGED <<projectName, gpc>>
    /\ UNCHANGED <<fs, inv, config, projectPath, pcwd, before, cmds, gexit>>
    /\ UNCHANGED bvars
    /\ UNCHANGED hvars
    /\ UNCHANGED rvars

\* the answers a `when` condition allows: "undefined" when the question is not asked
Answers(asked) == IF asked THEN {"yes", "no"} ELSE {"undefined"}

\* the questions of lines 62-91 that their `when` lets through
Asked(options) ==
    (IF options.packageManager = "" THEN {"packageManager"} ELSE {})
    \cup (IF ~ options.skipInstall THEN {"installDependencies"} ELSE {})
    \cup (IF ~ options.skipGit THEN {"initializeGit"} ELSE {})
    \cup {"setupEnvironment"}

\* path.resolve(process.cwd(), projectName)
Resolve(cwd, name) == Join(cwd, <<name>>)

\* faulty variant of ResolveFlag: the skip flag is not looked at
ResolveFlag_IgnoresSkip(skip, answer) == answer # "no"

\* lines 96-97: `!options.skipX && (answers.X !== false)`
ResolveFlag(skip, answer) == ~ skip /\ answer # "no"

\* line 95: `options.packageManager || answers.packageManager || 'npm'`
ResolvePackageManager(option, answer) ==
    IF option # "" THEN option ELSE IF answer # "undefined" THEN answer ELSE "npm"

\* createProject, lines 61-104: the four questions, the config object, projectPath
AskOptions ==
    /\ gpc = "askOptions"
    /\ LET options == Options(inv) IN
        /\ \E aPm \in IF "packageManager" \in Asked(options)
                       THEN {"npm", "yarn", "pnpm"} ELSE {"undefined"},
              aInstall \in Answers("installDependencies" \in Asked(options)),
              aGit \in Answers("initializeGit" \in Asked(options)),
              aEnv \in Answers("setupEnvironment" \in Asked(options)) :
            config' =
                [packageManager |-> ResolvePackageManager(options.packageManager, aPm),
                 installDependencies |-> ResolveFlag(options.skipInstall, aInstall),
                 initializeGit |-> ResolveFlag(options.skipGit, aGit),
                 setupEnvironment |-> aEnv # "no"]
        /\ genLog' = genLog \cup {<<"ask", q>> : q \in Asked(options)}
    /\ projectPath' = Resolve(pcwd, projectName)
    /\ gpc' = "check"
    /\ UNCHANGED <<fs, inv, projectName, pcwd, before, cmds, gexit>>
    /\ UNCHANGED bvars
    /\ UNCHANGED hvars
    /\ UNCHANGED rvars

\* faulty variant of TargetAfterAnswer: the target is removed before the answer counts
TargetAfterAnswer_AlwaysRemoves(f, p, overwrite) == RemoveSync(f, p)

\* faulty variant of TargetAfterAnswer: the target is never removed
TargetAfterAnswer_NeverRemoves(f, p, overwrite) == f

\* lines 117-122: what becomes of an existing target once the overwrite question
\* is answered: kept as it is on no, removed whole on yes
TargetAfterAnswer(f, p, overwrite) == IF overwrite THEN RemoveSync(f, p) ELSE f

\* faulty variant of PassesCheck: the answer to the overwrite question is ignored
PassesCheck_Always(exists, overwrite) == TRUE

\* lines 107-120: the run goes on when the target does not exist or the
\* overwrite is confirmed, and returns otherwise
PassesCheck(exists, overwrite) == ~ exists \/ overwrite

\* the lines the overwrite question leaves on the console
OverwriteAsked(exists) == IF exists THEN {<<"ask", "overwrite">>} ELSE {}

\* createProject, lines 106-123: the existence check and the overwrite question
\* (overwrite is FALSE when the question is not asked)
CheckTarget ==
    /\ gpc = "check"
    /\ \E overwrite \in BOOLEAN :
        LET exists == Exists(fs, projectPath) IN
            /\ exists \/ ~ overwrite
            /\ fs' = IF exists THEN TargetAfterAnswer(fs, projectPath, overwrite) ELSE fs
            /\ IF PassesCheck(exists, overwrite)
               THEN /\ genLog' = genLog \cup OverwriteAsked(exists)
                    /\ gpc' = StepAfter("check")
                    /\ UNCHANGED gexit
               ELSE /\ genLog' = genLog \cup OverwriteAsked(exists)
                                \cup {<<"cancelled", "Project creation cancelled.">>}
                    /\ gpc' = "cancelled"
                    /\ gexit' = 0
    /\ UNCHANGED <<inv, projectName, config, projectPath, pcwd, before, cmds>>
    /\ UNCHANGED bvars
    /\ UNCHANGED hvars
    /\ UNCHANGED rvars

\* faulty variant of CopySync: the copy does not descend below the first level
CopySync_Shallow(f, src, dest) ==
    LET top == {q \in Subtree(f, src) : Len(q) <= Len(src) + 1}
        new == {Join(dest, Relative(src, q)) : q \in top}
    IN  [p \in DOMAIN f \cup new |->
            IF p \in new THEN f[Join(src, Relative(dest, p))] ELSE f[p]]

\* fs.copySync(src, dest): every entry below src is written below dest, replacing
\* what is there and keeping what src does not have
CopySync(f, src, dest) ==
    LET new == {Join(dest, Relative(src, q)) : q \in Subtree(f, src)} IN
        [p \in DOMAIN f \cup new |->
            IF p \in new THEN f[Join(src, Relative(dest, p))] ELSE f[p]]


\* the error line of the program action's catch, line 33
Thrown(log) == log \cup {<<"error", "Error creating project:">>}

\* faulty variant of ActionCatch: the error is printed and the process ends normally
ActionCatch_ExitsZero(log) == [pc |-> "failed", exit |-> 0, log |-> Thrown(log)]

\* a throw out of createProject: the catch of the program action, lines 32-35,
\* prints the error and ends the process with process.exit(1)
ActionCatch(log) == [pc |-> "failed", exit |-> 1, log |-> Thrown(log)]

\* faulty variant of CopyCatch: `throw error` is missing, as in the optional steps
CopyCatch_Swallows(log) ==
    [pc |-> StepAfter("copy"), exit |-> "none",
     log |-> log \cup {<<"fail", "Failed to copy template files">>}]

\* the catch of the copy step, lines 131-134: spinner.fail, then the error is thrown on
CopyCatch(log) == ActionCatch(log \cup {<<"fail", "Failed to copy template files">>})

\* createProject, lines 125-134: copy the template; copySync throws when the
\* template is missing, and may fail on an I/O error after creating the target
CopyTemplate ==
    /\ gpc = "copy"
    /\ LET templatePath == templateDir IN
        \/ /\ Exists(fs, templatePath)
           /\ fs' = CopySync(fs, templatePath, projectPath)
           /\ genLog' = genLog \cup {<<"succeed", "Template files copied">>}
           /\ gpc' = StepAfter("copy")
           /\ UNCHANGED gexit
        \/ /\ \E wrote \in BOOLEAN :
                fs' = IF wrote /\ Exists(fs, templatePath)
                      THEN WriteNode(fs, projectPath, Dir) ELSE fs
           /\ genLog' = CopyCatch(genLog).log
           /\ gpc' = CopyCatch(genLog).pc
           /\ gexit' = CopyCatch(genLog).exit
    /\ UNCHANGED <<inv, projectName, config, projectPath, pcwd, before, cmds>>
    /\ UNCHANGED bvars
    /\ UNCHANGED hvars
    /\ UNCHANGED rvars

\* faulty variant of RenameManifest: the name is left as the template has it
RenameManifest_KeepsName(projectPackageJson, name) == projectPackageJson

\* faulty variant of RenameManifest: the CLI fields are dropped along the way
RenameManifest_DropsCliFields(projectPackageJson, name) ==
    SetKey(DeleteKey(DeleteKey(projectPackageJson, "bin"), "files"), "name", Str(name))

\* faulty variant of RenameManifest: the version is reset along with the name
RenameManifest_ResetsVersion(projectPackageJson, name) ==
    SetKey(SetKey(projectPackageJson, "name", Str(name)), "version", Str("1.0.0"))

\* lines 139-141: the package.json object with its name set
RenameManifest(projectPackageJson, name) == SetKey(projectPackageJson, "name", Str(name))

\* createProject, lines 136-142: set the name in the copied package.json;
\* JSON.parse throws on a file that is no JSON
UpdatePackageJson ==
    /\ gpc = "rename"
    /\ LET projectPackageJsonPath == Join(projectPath, <<"package.json">>) IN
        IF ~ Exists(fs, projectPackageJsonPath)
        THEN /\ gpc' = StepAfter("rename")
             /\ UNCHANGED <<fs, genLog, gexit>>
        ELSE IF JsonParseThrows(fs[projectPackageJsonPath])
        THEN /\ genLog' = ActionCatch(genLog).log
             /\ gpc' = ActionCatch(genLog).pc
             /\ gexit' = ActionCatch(genLog).exit
             /\ UNCHANGED fs
        ELSE /\ fs' = WriteNode(fs, projectPackageJsonPath,
                        JsonFile(RenameManifest(fs[projectPackageJsonPath].obj, projectName),
                                 "indent2"))
             /\ gpc' = StepAfter("rename")
             /\ UNCHANGED <<genLog, gexit>>
    /\ UNCHANGED <<inv, projectName, config, projectPath, pcwd, before, cmds>>
    /\ UNCHANGED bvars
    /\ UNCHANGED hvars
    /\ UNCHANGED rvars

\* faulty variant of SeedEnvironment: .env is created without the example's content
SeedEnvironment_Empty(f, envExamplePath, envPath) ==
    IF Exists(f, envExamplePath) THEN WriteNode(f, envPath, File("")) ELSE f

\* lines 151-153: .env.example, when there is one, is copied to .env
SeedEnvironment(f, envExamplePath, envPath) ==
    IF Exists(f, envExamplePath) THEN CopySync(f, envExamplePath, envPath) ELSE f

\* createProject, lines 144-158: copy .env.example to .env; a failing copy only warns
SetupEnvironment ==
    /\ gpc = "env"
    /\ LET envExamplePath == Join(projectPath, <<".env.example">>)
           envPath == Join(projectPath, <<".env">>)
       IN  IF ~ config.setupEnvironment
           THEN /\ gpc' = StepAfter("env")
                /\ UNCHANGED <<fs, genLog>>
           ELSE \E ok \in IF Exists(fs, envExamplePath) THEN BOOLEAN ELSE {TRUE} :
                IF ok
                THEN /\ fs' = SeedEnvironment(fs, envExamplePath, envPath)
                     /\ genLog' = genLog \cup {<<"succeed", "Environment variables set up">>}
                     /\ gpc' = StepAfter("env")
                ELSE /\ genLog' = genLog \cup
                            {<<"warn", "Could not set up environment variables">>}
                     /\ gpc' = OptionalCatch("env")
                     /\ UNCHANGED fs
    /\ UNCHANGED <<inv, projectName, config, projectPath, pcwd, before, cmds, gexit>>
    /\ UNCHANGED bvars
    /\ UNCHANGED hvars
    /\ UNCHANGED rvars

\* the commands of the git step, in the order of lines 165-167, each with the
\* working directory it runs in
gitCommands(dir) == << <<"git init", dir>>, <<"git add .", dir>>, <<"git commit", dir>> >>

\* the same try block with every command run whatever failed before it
GitRun_DespiteFailure(failAt, dir) == gitCommands(dir)

\* the commands the try block of lines 163-167 runs, in the working directory
\* dir: none when chdir throws (failAt = 0), otherwise the commands up to and
\* including the first one that throws (failAt = k: the k-th), all three when
\* none does
GitRun(failAt, dir) ==
    IF failAt = 0
    THEN << >>
    ELSE SubSeq(gitCommands(dir), 1, IF failAt > 3 THEN 3 ELSE failAt)

\* createProject, lines 160-172: chdir, git init, git add, git commit; the first
\* failure (n = 0: chdir, n = k: the k-th command) skips the rest and only warns
InitializeGit ==
    /\ gpc = "git"
    /\ IF ~ config.initializeGit
       THEN /\ gpc' = StepAfter("git")
            /\ UNCHANGED <<fs, pcwd, cmds, genLog>>
       ELSE \E failAt \in 0..4 :
            LET done == IF failAt > 3 THEN 3 ELSE IF failAt = 0 THEN 0 ELSE failAt - 1
            IN  /\ pcwd' = IF failAt = 0 THEN pcwd ELSE projectPath
                /\ cmds' = cmds \o GitRun(failAt, pcwd')
                /\ fs' = IF done >= 1
                         THEN WriteNode(fs, Join(projectPath, <<".git">>), Dir)
                         ELSE fs
                /\ genLog' = genLog \cup
                        {IF failAt > 3
                         THEN <<"succeed", "Git repository initialized">>
                         ELSE <<"warn", "Could not initialize git repository">>}
                /\ gpc' = IF failAt > 3 THEN StepAfter("git") ELSE OptionalCatch("git")
    /\ UNCHANGED <<inv, projectName, config, projectPath, before, gexit>>
    /\ UNCHANGED bvars
    /\ UNCHANGED hvars
    /\ UNCHANGED rvars

\* the installCommand table, lines 180-184; "" stands for undefined
installCommand(pm) ==
    CASE pm = "npm" -> "npm install"
      [] pm = "yarn" -> "yarn install"
      [] pm = "pnpm" -> "pnpm install"
      [] OTHER -> ""

\* line 191: the line `cd ${projectName} && ${config.packageManager} install`
ManualCommand(name, pm) == <<"manual", name, pm>>

\* createProject, lines 174-193: chdir and run the install command; a failure
\* prints the manual command and goes on
InstallDependencies ==
    /\ gpc = "install"
    /\ IF ~ config.installDependencies
       THEN /\ gpc' = StepAfter("install")
            /\ UNCHANGED <<fs, pcwd, cmds, genLog>>
       ELSE \E ok \in BOOLEAN :
            /\ pcwd' = projectPath
            /\ IF ok /\ installCommand(config.packageManager) # ""
               THEN /\ cmds' = Append(cmds, <<installCommand(config.packageManager), projectPath>>)
                    /\ fs' = WriteNode(fs, Join(projectPath, <<"node_modules">>), Dir)
                    /\ genLog' = genLog \cup {<<"succeed", "Dependencies installed">>}
                    /\ gpc' = StepAfter("install")
               ELSE /\ cmds' = IF installCommand(config.packageManager) # ""
                               THEN Append(cmds, <<installCommand(config.packageManager),
                                                   projectPath>>)
                               ELSE cmds
                    /\ genLog' = genLog \cup
                            {<<"fail", "Failed to install dependencies">>,
                             ManualCommand(projectName, config.packageManager)}
                    /\ gpc' = OptionalCatch("install")
                    /\ UNCHANGED fs
    /\ UNCHANGED <<inv, projectName, config, projectPath, before, gexit>>
    /\ UNCHANGED bvars
    /\ UNCHANGED hvars
    /\ UNCHANGED rvars

\* createProject, lines 195-231: the success message; the process then ends with 0
Summary ==
    /\ gpc = "summary"
    /\ genLog' = genLog \cup {<<"summary", "Project created successfully!">>}
    /\ gpc' = StepAfter("summary")
    /\ gexit' = 0
    /\ UNCHANGED <<fs, inv, projectName, config, projectPath, pcwd, before, cmds>>
    /\ UNCHANGED bvars
    /\ UNCHANGED hvars
    /\ UNCHANGED rvars


(***************************************************************************)
(* Test harness: scripts/test-cli.js                                       *)
(***************************************************************************)
testProjectName == "test-cli-project"

testProjectPath == Join(rootDir, <<testProjectName>>)

\* the list of lines 71-80
essentialFiles ==
    << <<"package.json">>, <<"src", "main.tsx">>, <<"src", "app", "app.tsx">>,
       <<"index.html">>, <<"vite.config.ts">>, <<"tailwind.config.cjs">>,
       <<".env.example">>, <<"docs", "README.md">> >>

\* `npm run <script>` in dir cannot start: no readable package.json there, or no
\* such script in it
NpmRunFails(f, dir, script) ==
    LET p == Join(dir, <<"package.json">>) IN
        \/ ~ Exists(f, p)
        \/ ~ f[p].json
        \/ ~ HasKey(f[p].obj, "scripts")
        \/ Get(f[p].obj, "scripts").tag # "map"
        \/ ~ HasKey(Get(f[p].obj, "scripts").m, script)

\* the checks of lines 63-104, in their order: "ok", or the error thrown first
Verify(f) ==
    LET packageJsonPath == Join(testProjectPath, <<"package.json">>) IN
    IF ~ Exists(f, testProjectPath) THEN "Test project was not created"
    ELSE IF \E i \in 1..Len(essentialFiles) :
                ~ Exists(f, Join(testProjectPath, essentialFiles[i]))
    THEN "Essential file missing"
    ELSE IF JsonParseThrows(f[packageJsonPath]) THEN "SyntaxError"
    ELSE IF ~ HasKey(f[packageJsonPath].obj, "name")
            \/ Get(f[packageJsonPath].obj, "name") # Str(testProjectName)
    THEN "Package name not updated"
    ELSE IF HasKey(f[packageJsonPath].obj, "bin") \/ HasKey(f[packageJsonPath].obj, "files")
    THEN "CLI-specific fields not removed"
    ELSE "ok"

\* the catch of testCLI, lines 131-134: the error is printed and the process ends
\* with process.exit(1); cleanup is not called here, and the handler of lines
\* 151-155, which calls it, is never reached, as testCLI never rejects
HarnessCatch(message) ==
    /\ hlog' = hlog \cup {<<"CLI test failed", message>>}
    /\ hpc' = "exited"
    /\ hexit' = 1

\* a build started from the command line once the harness has ended
BuildAfterHarness ==
    /\ hpc = "exited"
    /\ bpc \in {"idle", "done", "failed"}
    /\ builds < MaxBuilds
    /\ StartBuild
    /\ UNCHANGED gvars
    /\ UNCHANGED hvars
    /\ UNCHANGED rvars

\* testCLI, lines 38-46: an existing test project is removed
HarnessStart ==
    /\ hpc = "idle"
    /\ bpc = "idle"
    /\ gpc = "idle"
    /\ fs' = IF Exists(fs, testProjectPath) THEN RemoveSync(fs, testProjectPath) ELSE fs
    /\ hlog' = IF Exists(fs, testProjectPath)
               THEN {<<"log", "Cleaning up existing test project...">>} ELSE {}
    /\ hpc' = "build"
    /\ UNCHANGED hexit
    /\ UNCHANGED bvars
    /\ UNCHANGED gvars
    /\ UNCHANGED rvars

\* lines 48-53: execSync('npm run build-template'), the start of the subprocess
HarnessBuild ==
    /\ hpc = "build"
    /\ IF NpmRunFails(fs, rootDir, "build-template")
       THEN /\ HarnessCatch("Command failed: npm run build-template")
            /\ UNCHANGED fs
            /\ UNCHANGED bvars
       ELSE /\ StartBuild
            /\ hpc' = "building"
            /\ UNCHANGED <<hlog, hexit>>
    /\ UNCHANGED gvars
    /\ UNCHANGED rvars

\* lines 50-53: execSync returns when the build has ended, and throws on a
\* non-zero exit code
HarnessBuildReturn ==
    /\ hpc = "building"
    /\ bpc \in {"done", "failed"}
    /\ IF bexit = 0
       THEN /\ hpc' = "generate"
            /\ UNCHANGED <<hlog, hexit>>
       ELSE HarnessCatch("Command failed: npm run build-template")
    /\ UNCHANGED fs
    /\ UNCHANGED bvars
    /\ UNCHANGED gvars
    /\ UNCHANGED rvars

\* lines 55-61: execSync('node bin/cli.js test-cli-project --skip-install
\* --skip-git') in rootDir, the start of the subprocess
HarnessGenerate ==
    /\ hpc = "generate"
    /\ StartGenerator([cwd |-> rootDir, arg |-> testProjectName, skipInstall |-> TRUE,
                       skipGit |-> TRUE, packageManager |-> ""])
    /\ hpc' = "generating"
    /\ UNCHANGED <<hlog, hexit>>
    /\ UNCHANGED bvars
    /\ UNCHANGED rvars

\* lines 57-61: execSync returns when the generator has ended, and throws on a
\* non-zero exit code
HarnessGenerateReturn ==
    /\ hpc = "generating"
    /\ gpc \in {"done", "cancelled", "failed", "crashed"}
    /\ IF gexit = 0
       THEN /\ hpc' = "verify"
            /\ UNCHANGED <<hlog, hexit>>
       ELSE HarnessCatch("Command failed: node bin/cli.js")
    /\ UNCHANGED fs
    /\ UNCHANGED bvars
    /\ UNCHANGED gvars
    /\ UNCHANGED rvars

\* lines 63-104: the checks of the generated project
HarnessVerify ==
    /\ hpc = "verify"
    /\ IF Verify(fs) = "ok"
       THEN /\ hlog' = hlog \cup {<<"log", "CLI-specific fields removed">>}
            /\ hpc' = "install"
            /\ UNCHANGED hexit
       ELSE HarnessCatch(Verify(fs))
    /\ UNCHANGED fs
    /\ UNCHANGED bvars
    /\ UNCHANGED gvars
    /\ UNCHANGED rvars

\* lines 106-129: with TEST_INSTALL=true, npm install and npm run build in the test
\* project, either of which may fail; then the success lines, and the process ends
HarnessInstall ==
    /\ hpc = "install"
    /\ \E testInstall \in BOOLEAN, installed \in BOOLEAN, built \in BOOLEAN :
        LET f1 == IF testInstall /\ installed
                  THEN WriteNode(fs, Join(testProjectPath, <<"node_modules">>), Dir)
                  ELSE fs
            f2 == IF testInstall /\ installed /\ built
                  THEN WriteNode(f1, Join(testProjectPath, <<"dist">>), Dir)
                  ELSE f1
        IN  /\ fs' = f2
            /\ IF testInstall /\ ~ installed
               THEN HarnessCatch("Command failed: npm install")
               ELSE IF testInstall /\ ~ built
               THEN HarnessCatch("Command failed: npm run build")
               ELSE /\ hlog' = hlog \cup {<<"log", "CLI test completed successfully!">>}
                    /\ hpc' = "exited"
                    /\ hexit' = 0
    /\ UNCHANGED bvars
    /\ UNCHANGED gvars
    /\ UNCHANGED rvars


(***************************************************************************)
(* Initial file systems                                                    *)
(***************************************************************************)
\* the tool's own package.json, as docs describe it: bin, files, CLI scripts and
\* CLI devDependencies beside those of the application
toolManifest ==
    << <<"name", Str("create-react-vite-boilerplate")>>,
       <<"version", Str("1.0.0")>>,
       <<"bin", Other("./bin/cli.js")>>,
       <<"files", Other("template bin README.md")>>,
       <<"scripts", Map(<< <<"dev", "vite">>,
                           <<"build-template", "node scripts/build-template.js">>,
                           <<"build", "vite build">>,
                           <<"test-cli", "node scripts/test-cli.js">>,
                           <<"prepublishOnly", "npm run build-template">> >>)>>,
       <<"devDependencies", Map(<< <<"chalk", "5">>, <<"vite", "5">>,
                                   <<"commander", "11">>, <<"fs-extra", "11">>,
                                   <<"inquirer", "9">>, <<"typescript", "5">>,
                                   <<"ora", "7">> >>)>>,
       <<"engines", Other("node >= 20")>> >>

\* the tool's package.json with the packages of the CLI listed as runtime
\* dependencies, beside those of the application
runtimeManifest ==
    << <<"name", Str("create-react-vite-boilerplate")>>,
       <<"version", Str("1.0.0")>>,
       <<"bin", Other("./bin/cli.js")>>,
       <<"files", Other("template bin README.md")>>,
       <<"scripts", Map(<< <<"dev", "vite">>,
                           <<"build-template", "node scripts/build-template.js">> >>)>>,
       <<"dependencies", Map(<< <<"react", "18">>, <<"chalk", "5">>,
                                <<"commander", "11">>, <<"fs-extra", "11">>,
                                <<"inquirer", "9">>, <<"ora", "7">> >>)>>,
       <<"devDependencies", Map(<< <<"vite", "5">>, <<"typescript", "5">> >>)>> >>

\* a package.json without any field of the CLI
plainManifest ==
    << <<"version", Str("2.0.0")>>,
       <<"name", Str("vite-react-boilerplate")>>,
       <<"scripts", Map(<< <<"dev", "vite">> >>)>> >>

ManifestVariants == {"tool", "plain", "broken", "absent"}

ManifestTree(v) ==
    CASE v = "tool" -> (<<"pkg", "package.json">> :> JsonFile(toolManifest, "source"))
      [] v = "plain" -> (<<"pkg", "package.json">> :> JsonFile(plainManifest, "source"))
      [] v = "runtime" -> (<<"pkg", "package.json">> :> JsonFile(runtimeManifest, "source"))
      [] v = "broken" -> (<<"pkg", "package.json">> :> File("{ name: "))
      [] OTHER -> <<>>

\* the working tree of the tool: application files, and entries of every kind of
\* exclusion (top-level, nested by base name, exact relative path)
SourceTree ==
    (<<"pkg">> :> Dir) @@ (<<"work">> :> Dir)
    @@ (<<"pkg", "index.html">> :> File("index"))
    @@ (<<"pkg", ".env.example">> :> File("VITE_APP_API_URL="))
    @@ (<<"pkg", ".env">> :> File("secret"))
    @@ (<<"pkg", "README.md">> :> File("tool README"))
    @@ (<<"pkg", ".git">> :> Dir)
    @@ (<<"pkg", "src">> :> Dir)
    @@ (<<"pkg", "src", "main.tsx">> :> File("main"))
    @@ (<<"pkg", "src", "app">> :> Dir)
    @@ (<<"pkg", "src", "app", "app.tsx">> :> File("app"))
    @@ (<<"pkg", "vite.config.ts">> :> File("vite config"))
    @@ (<<"pkg", "tailwind.config.cjs">> :> File("tailwind config"))
    @@ (<<"pkg", "src", "node_modules">> :> Dir)
    @@ (<<"pkg", "src", "node_modules", "dep.js">> :> File("nested dep"))
    @@ (<<"pkg", "node_modules">> :> Dir)
    @@ (<<"pkg", "node_modules", "dep.js">> :> File("dep"))
    @@ (<<"pkg", ".storybook">> :> Dir)
    @@ (<<"pkg", ".storybook", "main.ts">> :> File("storybook main"))
    @@ (<<"pkg", ".storybook", "manager-head.html">> :> File("manager head"))
    @@ (<<"pkg", "docs">> :> Dir)
    @@ (<<"pkg", "docs", "README.md">> :> File("docs"))
    @@ (<<"pkg", "docs", "build">> :> File("a file called build"))
    @@ (<<"pkg", "docs", ".storybook">> :> Dir)
    @@ (<<"pkg", "docs", ".storybook", "manager-head.html">> :> File("nested manager head"))
    @@ (<<"pkg", "bin">> :> Dir)
    @@ (<<"pkg", "bin", "cli.js">> :> File("cli"))
    @@ (<<"pkg", "scripts">> :> Dir)
    @@ (<<"pkg", "scripts", "build-template.js">> :> File("build-template"))

TemplateVariants == {"none", "stale", "bare", "corrupt"}

\* the template directory the run finds: none; what an earlier, interrupted build
\* and hand edits left; one without a package.json; one whose package.json is no JSON
TemplateTree(v) ==
    CASE v = "stale" ->
            (<<"pkg", "template">> :> Dir)
            @@ (<<"pkg", "template", "old.txt">> :> File("stale"))
            @@ (<<"pkg", "template", "index.html">> :> File("old index"))
            @@ (<<"pkg", "template", "package.json">> :> JsonFile(toolManifest, "source"))
      [] v = "bare" ->
            (<<"pkg", "template">> :> Dir)
            @@ (<<"pkg", "template", "index.html">> :> File("old index"))
            @@ (<<"pkg", "template", ".env.example">> :> File("VITE_OLD="))
      [] v = "corrupt" ->
            (<<"pkg", "template">> :> Dir)
            @@ (<<"pkg", "template", "package.json">> :> File("{ name: "))
      [] OTHER -> <<>>

PriorVariants == {"none", "work", "pkg"}

\* a project directory left at a target path by an earlier run
PriorTree(v) ==
    LET at(d) == (d :> Dir)
                 @@ (Join(d, <<"old.txt">>) :> File("prior"))
                 @@ (Join(d, <<"index.html">>) :> File("prior index"))
                 @@ (Join(d, <<".env">>) :> File("prior env"))
    IN  CASE v = "work" -> at(<<"work", "my-app">>)
          [] v = "pkg" -> at(<<"pkg", "test-cli-project">>)
          [] OTHER -> <<>>

Init ==
    /\ \E m \in ManifestVariants, t \in TemplateVariants, p \in PriorVariants :
            fs = SourceTree @@ ManifestTree(m) @@ TemplateTree(t) @@ PriorTree(p)
    /\ bpc = "idle"
    /\ bstack = <<>>
    /\ listed = {}
    /\ buildLog = {}
    /\ bexit = "none"
    /\ builds = 0
    /\ gpc = "idle"
    /\ inv = NoInvocation
    /\ projectName = ""
    /\ config = NoConfig
    /\ projectPath = <<>>
    /\ pcwd = <<>>
    /\ before = <<>>
    /\ genLog = {}
    /\ cmds = <<>>
    /\ gexit = "none"
    /\ hpc = "idle"
    /\ hlog = {}
    /\ hexit = "none"
    /\ rpc = "idle"
    /\ rlog = {}

Next ==
    \/ BuildTemplateStart
    \/ CopyDirectoryEnter
    \/ CopyDirectoryItem
    \/ CopyDirectoryReturn
    \/ ProcessTemplateFiles
    \/ GenStart
    \/ AskName
    \/ AskOptions
    \/ CheckTarget
    \/ CopyTemplate
    \/ UpdatePackageJson
    \/ SetupEnvironment
    \/ InitializeGit
    \/ InstallDependencies
    \/ Summary

Spec == Init /\ [][Next]_vars

\* the working trees a harness run may find: the whole tree, or one that lacks a
\* file of the essential list
SourceVariants == {"whole", "lacking"}

SourceTreeOf(v) ==
    IF v = "whole" THEN SourceTree
    ELSE [p \in DOMAIN SourceTree \ {<<"pkg", "vite.config.ts">>} |-> SourceTree[p]]

InitHarness ==
    /\ \E s \in SourceVariants, m \in ManifestVariants, t \in TemplateVariants,
          p \in PriorVariants :
            fs = SourceTreeOf(s) @@ ManifestTree(m) @@ TemplateTree(t) @@ PriorTree(p)
    /\ bpc = "idle"
    /\ bstack = <<>>
    /\ listed = {}
    /\ buildLog = {}
    /\ bexit = "none"
    /\ builds = 0
    /\ gpc = "idle"
    /\ inv = NoInvocation
    /\ projectName = ""
    /\ config = NoConfig
    /\ projectPath = <<>>
    /\ pcwd = <<>>
    /\ before = <<>>
    /\ genLog = {}
    /\ cmds = <<>>
    /\ gexit = "none"
    /\ hpc = "idle"
    /\ hlog = {}
    /\ hexit = "none"
    /\ rpc = "idle"
    /\ rlog = {}

\* one run of the test harness, with the build and the generator as its
\* subprocesses
NextHarness ==
    \/ HarnessStart
    \/ HarnessBuild
    \/ CopyDirectoryEnter
    \/ CopyDirectoryItem
    \/ CopyDirectoryReturn
    \/ ProcessTemplateFiles
    \/ HarnessBuildReturn
    \/ HarnessGenerate
    \/ AskOptions
    \/ CheckTarget
    \/ CopyTemplate
    \/ UpdatePackageJson
    \/ SetupEnvironment
    \/ InitializeGit
    \/ InstallDependencies
    \/ Summary
    \/ HarnessGenerateReturn
    \/ HarnessVerify
    \/ HarnessInstall
    \/ BuildAfterHarness

SpecHarness == InitHarness /\ [][NextHarness]_vars

(***************************************************************************)
(* A second generator process on the same target                           *)
(***************************************************************************)
\* the second process is started with the same command line in the same
\* directory: create-react-vite-boilerplate my-app --skip-install --skip-git
RivalPath == Resolve(<<"work">>, "my-app")

\* lines 16-100 of the second process: the manifest of the tool is loaded, the
\* environment question is answered with no
RivalStart ==
    /\ rpc = "idle"
    /\ hpc = "idle"
    /\ bpc \in {"idle", "done", "failed"}
    /\ rpc' = IF LoadFails(fs) THEN "crashed" ELSE "check"
    /\ rlog' = {<<"ask", "setupEnvironment">>}
    /\ UNCHANGED fs
    /\ UNCHANGED bvars
    /\ UNCHANGED gvars
    /\ UNCHANGED hvars

\* createProject, lines 106-123, in the second process
RivalCheckTarget ==
    /\ rpc = "check"
    /\ \E overwrite \in BOOLEAN :
        LET exists == Exists(fs, RivalPath) IN
            /\ exists \/ ~ overwrite
            /\ fs' = IF exists THEN TargetAfterAnswer(fs, RivalPath, overwrite) ELSE fs
            /\ IF PassesCheck(exists, overwrite)
               THEN /\ rlog' = rlog \cup OverwriteAsked(exists)
                    /\ rpc' = "copy"
               ELSE /\ rlog' = rlog \cup OverwriteAsked(exists)
                                \cup {<<"cancelled", "Project creation cancelled.">>}
                    /\ rpc' = "cancelled"
    /\ UNCHANGED bvars
    /\ UNCHANGED gvars
    /\ UNCHANGED hvars

\* createProject, lines 125-134, in the second process
RivalCopyTemplate ==
    /\ rpc = "copy"
    /\ \/ /\ Exists(fs, templateDir)
          /\ fs' = CopySync(fs, templateDir, RivalPath)
          /\ rlog' = rlog \cup {<<"succeed", "Template files copied">>}
          /\ rpc' = "rename"
       \/ /\ \E wrote \in BOOLEAN :
                fs' = IF wrote /\ Exists(fs, templateDir)
                      THEN WriteNode(fs, RivalPath, Dir) ELSE fs
          /\ rlog' = CopyCatch(rlog).log
          /\ rpc' = "failed"
    /\ UNCHANGED bvars
    /\ UNCHANGED gvars
    /\ UNCHANGED hvars

\* createProject, lines 136-142 and on to the summary, in the second process:
\* with --skip-install, --skip-git and no environment setup nothing else is written
RivalUpdatePackageJson ==
    /\ rpc = "rename"
    /\ LET projectPackageJsonPath == Join(RivalPath, <<"package.json">>) IN
        IF ~ Exists(fs, projectPackageJsonPath)
        THEN /\ rpc' = "done"
             /\ rlog' = rlog \cup {<<"summary", "Project created successfully!">>}
             /\ UNCHANGED fs
        ELSE IF JsonParseThrows(fs[projectPackageJsonPath])
        THEN /\ rlog' = ActionCatch(rlog).log
             /\ rpc' = "failed"
             /\ UNCHANGED fs
        ELSE /\ fs' = WriteNode(fs, projectPackageJsonPath,
                        JsonFile(RenameManifest(fs[projectPackageJsonPath].obj, "my-app"),
                                 "indent2"))
             /\ rpc' = "done"
             /\ rlog' = rlog \cup {<<"summary", "Project created successfully!">>}
    /\ UNCHANGED bvars
    /\ UNCHANGED gvars
    /\ UNCHANGED hvars

\* two processes started on the same target, from a template already on disk
InitRace ==
    /\ \E t \in TemplateVariants, p \in {"none", "work"} :
            fs = SourceTree @@ ManifestTree("tool") @@ TemplateTree(t) @@ PriorTree(p)
    /\ bpc = "idle"
    /\ bstack = <<>>
    /\ listed = {}
    /\ buildLog = {}
    /\ bexit = "none"
    /\ builds = 0
    /\ gpc = "idle"
    /\ inv = NoInvocation
    /\ projectName = ""
    /\ config = NoConfig
    /\ projectPath = <<>>
    /\ pcwd = <<>>
    /\ before = <<>>
    /\ genLog = {}
    /\ cmds = <<>>
    /\ gexit = "none"
    /\ hpc = "idle"
    /\ hlog = {}
    /\ hexit = "none"
    /\ rpc = "idle"
    /\ rlog = {}

\* the steps of the two processes interleave at will: each is a process of its
\* own, and none holds a lock
NextRace ==
    \/ GenStartMinimal
    \/ AskOptions
    \/ CheckTarget
    \/ CopyTemplate
    \/ UpdatePackageJson
    \/ SetupEnvironment
    \/ InitializeGit
    \/ InstallDependencies
    \/ Summary
    \/ RivalStart
    \/ RivalCheckTarget
    \/ RivalCopyTemplate
    \/ RivalUpdatePackageJson

SpecRace == InitRace /\ [][NextRace]_vars

\* entries of the working tree that are neither regular files nor directories:
\* a symbolic link to a file of the tree, or a symbolic link to nothing
SpecialVariants == {"none", "fileLink", "dangling"}

SpecialTree(v) ==
    CASE v = "fileLink" ->
            (<<"pkg", "src", "linked.ts">> :> Link(<<"pkg", "src", "main.tsx">>))
      [] v = "dangling" ->
            (<<"pkg", "src", "missing.ts">> :> Link(<<"pkg", "gone.ts">>))
      [] OTHER -> <<>>

PipelineManifests == ManifestVariants \cup {"runtime"}

InitPipeline ==
    /\ \E m \in PipelineManifests, t \in TemplateVariants, s \in SpecialVariants :
            fs = SourceTree @@ ManifestTree(m) @@ TemplateTree(t) @@ SpecialTree(s)
    /\ bpc = "idle"
    /\ bstack = <<>>
    /\ listed = {}
    /\ buildLog = {}
    /\ bexit = "none"
    /\ builds = 0
    /\ gpc = "idle"
    /\ inv = NoInvocation
    /\ projectName = ""
    /\ config = NoConfig
    /\ projectPath = <<>>
    /\ pcwd = <<>>
    /\ before = <<>>
    /\ genLog = {}
    /\ cmds = <<>>
    /\ gexit = "none"
    /\ hpc = "idle"
    /\ hlog = {}
    /\ hexit = "none"
    /\ rpc = "idle"
    /\ rlog = {}

\* the steps of the walk of a build: copyDirectory is synchronous code without
\* any suspension point
WalkStep ==
    \/ CopyDirectoryEnter
    \/ CopyDirectoryItem
    \/ CopyDirectoryReturn

\* builds of working trees with special entries, then one generator run
NextPipeline ==
    \/ BuildTemplateStart
    \/ CopyDirectoryEnter
    \/ CopyDirectoryItem
    \/ CopyDirectoryReturn
    \/ ProcessTemplateFiles
    \/ GenStartMinimal
    \/ AskOptions
    \/ CheckTarget
    \/ CopyTemplate
    \/ UpdatePackageJson
    \/ SetupEnvironment
    \/ InitializeGit
    \/ InstallDependencies
    \/ Summary

\* a started walk is not suspended: it runs on until it returns or throws
SpecPipeline == InitPipeline /\ [][NextPipeline]_vars /\ WF_vars(WalkStep)

\* every name in the file system has its place in the directory order
NamesOrdered ==
    \A p \in DOMAIN fs : Len(p) > 1 => \E i \in 1..Len(NameOrder) : NameOrder[i] = Basename(p)


(***************************************************************************)
(* Properties of the template build                                        *)
(***************************************************************************)
\* the entries of the working tree of the tool, rootDir itself left out
SourceEntries == {p \in DOMAIN fs : IsPrefix(rootDir, p) /\ p # rootDir}

\* an entry matches a rule: its path relative to rootDir equals the rule, starts
\* with rule + '/', or its base name equals the rule
MatchesRule(p) ==
    LET rel == Relative(rootDir, p) IN
        \E i \in 1..Len(excludePatterns) :
            LET rule == excludePatterns[i] IN
                \/ rel = rule
                \/ (Len(rel) > Len(rule) /\ SubSeq(rel, 1, Len(rule)) = rule)
                \/ (Len(rule) = 1 /\ rule[1] = p[Len(p)])

\* the place of a source entry in the template
InTemplate(p) == Join(templateDir, Relative(rootDir, p))

\* p or a directory above it (below rootDir) matches a rule
ExcludedAbove(p) ==
    \E k \in (Len(rootDir) + 1)..Len(p) : MatchesRule(SubSeq(p, 1, k))

BuildRunning == bpc \in {"copy", "process"}

BuildEnded == bpc \in {"done", "failed"}

\* C1: during and after a build of a source tree, an entry that matches an
\* exclusion rule (relative path equal to the rule, below rule + '/', or base name
\* equal to the rule) is not copied, nothing below it is copied, and neither it nor
\* a directory below it is ever listed.
C1_ExcludedNeverCopied ==
    ((BuildRunning \/ BuildEnded) /\ gpc = "idle") =>
        \A e \in SourceEntries :
            MatchesRule(e) =>
                \A q \in Subtree(fs, e) :
                    /\ InTemplate(q) \notin DOMAIN fs
                    /\ <<"Copied", Relative(rootDir, q)>> \notin buildLog
                    /\ q \notin listed

\* a finished build that met a top-level, a nested and an exact-path exclusion
C1_Witness ==
    /\ bpc = "done"
    /\ gpc = "idle"
    /\ <<"Excluding", <<"node_modules">> >> \in buildLog
    /\ <<"Excluding", <<"src", "node_modules">> >> \in buildLog
    /\ <<"Excluding", <<".storybook", "manager-head.html">> >> \in buildLog
    /\ <<"pkg", "src", "node_modules", "dep.js">> \in DOMAIN fs

\* C2: when the copy phase has finished, every regular file of the source tree
\* that neither matches a rule nor lies below a matching directory has, at the same
\* relative path in the template, a file with the same content.
C2_NonExcludedCopied ==
    bpc = "process" =>
        \A f \in SourceEntries :
            (fs[f].kind = "file" /\ ~ ExcludedAbove(f)) =>
                /\ InTemplate(f) \in DOMAIN fs
                /\ fs[InTemplate(f)] = fs[f]

\* the copy phase is over and a nested file and the manifest are in the template
C2_Witness ==
    /\ bpc = "process"
    /\ <<"pkg", "template", "src", "main.tsx">> \in DOMAIN fs
    /\ <<"pkg", "template", "docs", ".storybook", "manager-head.html">> \in DOMAIN fs
    /\ <<"pkg", "template", "package.json">> \in DOMAIN fs

\* the template a completed build of the present source tree has to leave: the
\* directory itself, every entry with nothing excluded above it, the manifest
\* rewritten, .gitignore and README.md with their fixed content
ExpectedTemplate ==
    LET kept == {p \in SourceEntries : ~ ExcludedAbove(p)}
        manifest == Join(rootDir, <<"package.json">>)
        copied == [q \in {InTemplate(p) : p \in kept} \cup {templateDir} |->
                    IF q = templateDir THEN Dir
                    ELSE LET p == Join(rootDir, Relative(templateDir, q)) IN
                         IF p = manifest
                         THEN JsonFile(RewriteManifest(fs[p].obj), "indent2")
                         ELSE fs[p]]
    IN  WriteAuxiliaryFiles(copied)

\* C3: a completed build leaves exactly the template determined by the source tree
\* it was run on (no generator has touched the tree since), whatever the template
\* directory held before; nothing that was there survives.
C3_BuildIdempotent ==
    (bpc = "done" /\ gpc = "idle") =>
        /\ Subtree(fs, templateDir) = DOMAIN ExpectedTemplate
        /\ \A q \in Subtree(fs, templateDir) : fs[q] = ExpectedTemplate[q]

\* a second build has completed over the template of the one before
C3_Witness ==
    /\ bpc = "done"
    /\ gpc = "idle"
    /\ builds = 2
    /\ <<"Removed", <<>> >> \in buildLog
    /\ <<"pkg", "template", "index.html">> \in DOMAIN fs

\* C4: after the manifest rewrite of a build, the template's package.json holds
\* neither a bin key nor a files key.
C4_NoBinNoFiles ==
    (bpc = "done" /\ <<"Processed", <<"package.json">> >> \in buildLog) =>
        LET n == fs[Join(templateDir, <<"package.json">>)] IN
            /\ n.json
            /\ ~ HasKey(n.obj, "bin")
            /\ ~ HasKey(n.obj, "files")

\* a build has rewritten a manifest whose source has both keys
C4_Witness ==
    /\ bpc = "done"
    /\ <<"Processed", <<"package.json">> >> \in buildLog
    /\ fs[Join(rootDir, <<"package.json">>)].json
    /\ HasKey(fs[Join(rootDir, <<"package.json">>)].obj, "bin")
    /\ HasKey(fs[Join(rootDir, <<"package.json">>)].obj, "files")

BuiltSuccessfully == <<"Template built successfully", <<>> >> \in buildLog

\* C5 as stated: a build whose template has no package.json, or one that cannot be
\* parsed, ends with the error and exit code 1 and never reports success.
C5_Original ==
    LET m == Join(templateDir, <<"package.json">>) IN
        (BuildEnded /\ (m \notin DOMAIN fs \/ ~ fs[m].json)) =>
            (bexit = 1 /\ ~ BuiltSuccessfully)

\* C5: when the copy phase is over and the template's package.json cannot be
\* parsed, the next step ends the build with the error and exit code 1, and a failed
\* build never reports success; when the template has no package.json, the rewrite
\* is skipped and the build ends successfully with exit code 0.
C5_UnparseableFatalMissingSkipped ==
    [][LET m == Join(templateDir, <<"package.json">>) IN
        /\ (bpc = "process" /\ m \in DOMAIN fs /\ ~ fs[m].json) =>
                (bpc' = "failed" /\ bexit' = 1 /\ ~ BuiltSuccessfully')
        /\ (bpc = "process" /\ m \notin DOMAIN fs) =>
                (bpc' = "done" /\ bexit' = 0 /\ BuiltSuccessfully')
        /\ (bpc' = "failed" => ~ BuiltSuccessfully')]_vars

\* a build has ended on a package.json that is no JSON
C5_Witness ==
    /\ bpc = "failed"
    /\ bexit = 1
    /\ ~ fs[Join(templateDir, <<"package.json">>)].json


(***************************************************************************)
(* Properties of the project generator                                     *)
(***************************************************************************)
TemplateManifest == Join(templateDir, <<"package.json">>)

TargetManifest == Join(projectPath, <<"package.json">>)

\* a non-empty name made of letters, digits, hyphens and underscores only
ValidIdentifier(name) ==
    LET cs == Chars(name) IN
        Len(cs) > 0 /\ \A i \in 1..Len(cs) : cs[i] \in Letters \cup Digits \cup {"-", "_"}

AllOptionalStepsDisabled ==
    /\ ~ config.installDependencies
    /\ ~ config.initializeGit
    /\ ~ config.setupEnvironment

\* the generated package.json is a JSON object whose name is the project name
TargetNamed ==
    /\ TargetManifest \in DOMAIN fs
    /\ fs[TargetManifest].json
    /\ HasKey(fs[TargetManifest].obj, "name")
    /\ Get(fs[TargetManifest].obj, "name") = Str(projectName)

\* C6: a run with a valid project name and all three optional steps disabled,
\* against a template that has a manifest, that goes through to its summary leaves
\* the directory <cwd>/<name> with a manifest whose name is the supplied name.
C6_ManifestNamed ==
    (/\ gpc = "done"
     /\ ValidIdentifier(projectName)
     /\ AllOptionalStepsDisabled
     /\ TemplateManifest \in DOMAIN fs) =>
        /\ (inv.arg # "" => projectName = inv.arg)
        /\ projectPath = Join(inv.cwd, <<projectName>>)
        /\ IsDirectory(fs, projectPath)
        /\ TargetNamed

\* such a run has ended, for a name given on the command line
C6_Witness ==
    /\ gpc = "done"
    /\ inv.arg = "my-app"
    /\ ValidIdentifier(projectName)
    /\ AllOptionalStepsDisabled
    /\ TemplateManifest \in DOMAIN fs
    /\ TargetNamed

TemplateHasCliFields ==
    /\ TemplateManifest \in DOMAIN fs
    /\ fs[TemplateManifest].json
    /\ HasKey(fs[TemplateManifest].obj, "bin")
    /\ HasKey(fs[TemplateManifest].obj, "files")

\* C7 as stated: from a template whose manifest has bin and files, the generated
\* manifest has the project name and neither bin nor files.
C7_Original ==
    (gpc = "done" /\ TemplateHasCliFields) =>
        /\ TargetNamed
        /\ ~ HasKey(fs[TargetManifest].obj, "bin")
        /\ ~ HasKey(fs[TargetManifest].obj, "files")

\* C7: from a template whose manifest has bin and files, the generated manifest
\* has the project name and still has the template's bin and files: the generator
\* rewrites the name only.
C7_NameOnlyRewritten ==
    (gpc = "done" /\ TemplateHasCliFields) =>
        /\ TargetNamed
        /\ HasKey(fs[TargetManifest].obj, "bin")
        /\ HasKey(fs[TargetManifest].obj, "files")
        /\ Get(fs[TargetManifest].obj, "bin") = Get(fs[TemplateManifest].obj, "bin")
        /\ Get(fs[TargetManifest].obj, "files") = Get(fs[TemplateManifest].obj, "files")

\* a run on such a template has reached its summary
C7_Witness ==
    /\ gpc = "done"
    /\ TemplateHasCliFields
    /\ TargetNamed

\* C8: when the generator has run to its summary on the template of a completed
\* build, the generated manifest has neither bin nor files, and every entry of the
\* template is present in the generated project.
C8_PipelineStripsCliFields ==
    (gpc = "done" /\ bpc = "done") =>
        /\ TargetManifest \in DOMAIN fs =>
                /\ fs[TargetManifest].json
                /\ ~ HasKey(fs[TargetManifest].obj, "bin")
                /\ ~ HasKey(fs[TargetManifest].obj, "files")
        /\ \A t \in Subtree(fs, templateDir) :
                Join(projectPath, Relative(templateDir, t)) \in DOMAIN fs

\* the pipeline has run on a tool manifest that has bin and files
C8_Witness ==
    /\ gpc = "done"
    /\ bpc = "done"
    /\ Join(rootDir, <<"package.json">>) \in DOMAIN fs
    /\ fs[Join(rootDir, <<"package.json">>)].json
    /\ HasKey(fs[Join(rootDir, <<"package.json">>)].obj, "bin")
    /\ HasKey(fs[Join(rootDir, <<"package.json">>)].obj, "files")
    /\ TargetNamed
    /\ Join(projectPath, <<"src", "main.tsx">>) \in DOMAIN fs

\* C9: when the target exists and the user declines the overwrite question, the
\* file system is what it was when the run started, no step after the question has
\* run (the console holds the questions, the rejected names and the cancellation
\* only), and the process ends with exit code 0.
C9_DeclineChangesNothing ==
    gpc = "cancelled" =>
        /\ projectPath \in DOMAIN before
        /\ fs = before
        /\ cmds = <<>>
        /\ genLog = {<<"cancelled", "Project creation cancelled.">>}
                        \cup {l \in genLog : l[1] \in {"invalid", "ask"}}
        /\ pcwd = inv.cwd
        /\ gexit = 0

\* the overwrite of an existing project was declined
C9_Witness ==
    /\ gpc = "cancelled"
    /\ Join(projectPath, <<"old.txt">>) \in DOMAIN fs
    /\ gexit = 0

\* C10: when the target existed and the run went through to its summary (the user
\* accepted the overwrite), every entry of the target comes from the template, with
\* the template's content (the manifest apart, which is renamed), or is what an
\* enabled optional step adds; and every entry of the template is in the target.
C10_OverwriteReplaces ==
    (gpc = "done" /\ projectPath \in DOMAIN before) =>
        /\ \A p \in Subtree(fs, projectPath) :
            LET rel == Relative(projectPath, p)
                t == Join(templateDir, rel)
                example == Join(templateDir, <<".env.example">>)
            IN  \/ /\ t \in DOMAIN fs
                   /\ (fs[p] = fs[t] \/ rel = <<"package.json">>)
                \/ /\ rel = <<".env">>
                   /\ config.setupEnvironment
                   /\ example \in DOMAIN fs
                   /\ fs[p] = fs[example]
                \/ (rel = <<".git">> /\ config.initializeGit)
                \/ (rel = <<"node_modules">> /\ config.installDependencies)
        /\ \A t \in Subtree(fs, templateDir) :
                Join(projectPath, Relative(templateDir, t)) \in DOMAIN fs

\* a run over an existing project, which held files the template lacks, has ended
C10_Witness ==
    /\ gpc = "done"
    /\ Join(projectPath, <<"old.txt">>) \in DOMAIN before
    /\ Join(projectPath, <<"index.html">>) \in DOMAIN fs

GenEnded == gpc \in {"done", "cancelled", "failed", "crashed"}

\* C11: the project name used to compute the target path is a validated
\* identifier, and as long as the name of a run is not one, the file system is
\* what it was when the run started (nothing created, nothing removed).
C11_NameValidated ==
    /\ (projectPath # <<>> => ValidIdentifier(projectName))
    /\ ((gpc # "idle" /\ ~ ValidIdentifier(projectName)) => fs = before)

TargetEnv == Join(projectPath, <<".env">>)

TargetEnvExample == Join(projectPath, <<".env.example">>)

EnvWarned == <<"warn", "Could not set up environment variables">> \in genLog

AfterEnvStep == gpc \in {"git", "install", "summary", "done"}

\* C12: once the environment step is over: when environment setup is enabled, the
\* copied template has a .env.example and the copy did not fail, the target has a
\* .env with the content of .env.example; when environment setup is disabled the
\* target has no .env that the template does not have.
C12_EnvSeeded ==
    AfterEnvStep =>
        /\ (config.setupEnvironment /\ TargetEnvExample \in DOMAIN fs /\ ~ EnvWarned) =>
                /\ TargetEnv \in DOMAIN fs
                /\ fs[TargetEnv] = fs[TargetEnvExample]
        /\ (~ config.setupEnvironment /\ TargetEnv \in DOMAIN fs) =>
                /\ Join(templateDir, <<".env">>) \in DOMAIN fs
                /\ fs[TargetEnv] = fs[Join(templateDir, <<".env">>)]

\* a run over a project that had a .env of its own has seeded .env from the example
C12_Witness ==
    /\ gpc = "done"
    /\ config.setupEnvironment
    /\ TargetEnv \in DOMAIN before
    /\ TargetEnv \in DOMAIN fs
    /\ fs[TargetEnv].text = "VITE_APP_API_URL="

GitWarned == <<"warn", "Could not initialize git repository">> \in genLog

InstallFailed == <<"fail", "Failed to install dependencies">> \in genLog

GitAttempted == GitWarned \/ <<"succeed", "Git repository initialized">> \in genLog

InstallAttempted == InstallFailed \/ <<"succeed", "Dependencies installed">> \in genLog

SummaryPrinted == <<"summary", "Project created successfully!">> \in genLog

OptionalStepFailed == EnvWarned \/ GitWarned \/ InstallFailed

\* C13: a run in which an optional step has failed is never aborted: it is at a
\* later step or at its end, where every enabled later step has been attempted,
\* the summary is printed and the exit code is 0; a failed install has printed
\* `cd <name> && <package manager> install`.
C13_OptionalFailureContinues ==
    OptionalStepFailed =>
        /\ gpc \in {"git", "install", "summary", "done"}
        /\ (gpc \in {"install", "summary", "done"} /\ config.initializeGit) => GitAttempted
        /\ (gpc \in {"summary", "done"} /\ config.installDependencies) => InstallAttempted
        /\ gpc = "done" => (SummaryPrinted /\ gexit = 0)
        /\ gpc # "done" => gexit = "none"
        /\ InstallFailed => <<"manual", projectName, config.packageManager>> \in genLog

\* a run in which all three optional steps failed has ended
C13_Witness ==
    /\ gpc = "done"
    /\ EnvWarned
    /\ GitWarned
    /\ InstallFailed
    /\ gexit = 0

CopyFailed == <<"fail", "Failed to copy template files">> \in genLog

CopySucceeded == <<"succeed", "Template files copied">> \in genLog

\* C14: once the copy of the template has failed, the run is over with exit code
\* 1: no command has been run, the working directory is unchanged, no later step
\* has reported anything, no summary is printed, and what is below the target is as
\* the template has it (no manifest renamed, no .env seeded).
C14_CopyFailureAborts ==
    CopyFailed =>
        /\ gpc = "failed"
        /\ gexit = 1
        /\ cmds = <<>>
        /\ pcwd = inv.cwd
        /\ ~ (CopySucceeded \/ SummaryPrinted \/ OptionalStepFailed)
        /\ ~ (GitAttempted \/ InstallAttempted)
        /\ <<"succeed", "Environment variables set up">> \notin genLog
        /\ \A q \in Subtree(fs, projectPath) \ {projectPath} :
                /\ Join(templateDir, Relative(projectPath, q)) \in DOMAIN fs
                /\ fs[q] = fs[Join(templateDir, Relative(projectPath, q))]

\* a copy has failed after creating the target, in a run with every optional step
\* enabled
C14_Witness ==
    /\ CopyFailed
    /\ projectPath \in DOMAIN fs
    /\ config.installDependencies
    /\ config.initializeGit
    /\ config.setupEnvironment

InstallCommands == {"npm install", "yarn install", "pnpm install"}

GitCommands == {"git init", "git add .", "git commit"}

ManifestUnparseable == TargetManifest \in DOMAIN fs /\ ~ fs[TargetManifest].json

\* C15: in a run with --skip-install no install command is run, the install
\* question is not asked and the install step reports nothing; the same for
\* --skip-git and git; such a run fails only by a required step, and at its end the
\* summary is printed and the exit code is 0.
C15_SkipFlagsHonoured ==
    /\ inv.skipInstall =>
        /\ \A i \in 1..Len(cmds) : cmds[i][1] \notin InstallCommands
        /\ <<"ask", "installDependencies">> \notin genLog
        /\ ~ InstallAttempted
        /\ \A l \in genLog : l[1] # "manual"
    /\ inv.skipGit =>
        /\ \A i \in 1..Len(cmds) : cmds[i][1] \notin GitCommands
        /\ <<"ask", "initializeGit">> \notin genLog
        /\ ~ GitAttempted
    /\ (inv.skipInstall \/ inv.skipGit) =>
        /\ gpc = "failed" => (CopyFailed \/ ManifestUnparseable)
        /\ gpc = "done" => (SummaryPrinted /\ gexit = 0)

\* a run with --skip-install and without --skip-git has run git and ended
C15_Witness ==
    /\ gpc = "done"
    /\ inv.skipInstall
    /\ ~ inv.skipGit
    /\ config.initializeGit
    /\ Len(cmds) = 3
    /\ SummaryPrinted

\* C16: in a run without --package-manager on the command line, once the
\* questions are over the package-manager question has been asked.
C16_PackageManagerAsked ==
    (gpc \notin {"idle", "crashed", "askName", "askOptions"} /\ inv.packageManager = "") =>
        <<"ask", "packageManager">> \in genLog

\* C17: in a run that has resolved its configuration, the package manager is one
\* of npm, yarn and pnpm, and the install command of the install step is defined.
C17_PackageManagerInEnum ==
    gpc \notin {"idle", "crashed", "askName", "askOptions"} =>
        /\ config.packageManager \in {"npm", "yarn", "pnpm"}
        /\ installCommand(config.packageManager) # ""

Cancelled == <<"cancelled", "Project creation cancelled.">> \in genLog

\* C18: the summary is printed only at the end of a run; a run that has ended has
\* printed it exactly when the copy succeeded and the manifest at the target was
\* not unparseable; its exit code is 0 exactly when the summary was printed or the
\* overwrite was declined, and 1 otherwise; a run that has not ended has no exit code.
C18_OutcomeMatchesRequiredSteps ==
    /\ SummaryPrinted => gpc = "done"
    /\ ~ GenEnded => (gexit = "none" \/ gpc = "idle")
    /\ GenEnded =>
        /\ SummaryPrinted <=> (CopySucceeded /\ ~ ManifestUnparseable)
        /\ (gexit = 0) <=> (SummaryPrinted \/ Cancelled)
        /\ (gexit = 1) <=> ~ (SummaryPrinted \/ Cancelled)

\* a run has ended on a manifest at the target that is no JSON
C18_Witness ==
    /\ gpc = "failed"
    /\ CopySucceeded
    /\ ManifestUnparseable
    /\ gexit = 1
    /\ ~ SummaryPrinted

\* the place of a step in the order of createProject
Rank(pc) ==
    CASE pc = "check" -> 1
      [] pc = "copy" -> 2
      [] pc = "rename" -> 3
      [] pc = "env" -> 4
      [] pc = "git" -> 5
      [] pc = "install" -> 6
      [] pc = "summary" -> 7
      [] pc = "done" -> 8
      [] OTHER -> 0

\* this step runs the install command
InstallRuns ==
    /\ Len(cmds') = Len(cmds) + 1
    /\ cmds'[Len(cmds')][1] \in InstallCommands

\* a step of the run keeps the order: the position moves to the next step, or the
\* run ends; the install command is run by the install step, after the
\* environment step and the git step, when enabled, have reported, and every
\* command run before it is a git command
StepsInOrder ==
    /\ (Rank(gpc) > 0 /\ gpc' # gpc) =>
            (Rank(gpc') = Rank(gpc) + 1 \/ gpc' \in {"failed", "cancelled"})
    /\ InstallRuns =>
        /\ gpc = "install"
        /\ CopySucceeded
        /\ config.setupEnvironment =>
                (EnvWarned \/ <<"succeed", "Environment variables set up">> \in genLog)
        /\ config.initializeGit => GitAttempted
        /\ \A i \in 1..Len(cmds) : cmds[i][1] \in GitCommands
        /\ (~ GitWarned /\ config.initializeGit) => cmds[Len(cmds)][1] = "git commit"

\* C20 as stated: the steps keep their order, and when the install command runs
\* the manifest exists at the target.
C20_Original ==
    [][StepsInOrder /\ (InstallRuns => TargetManifest \in DOMAIN fs)]_vars

\* C20: the steps keep their order (target check, copy, manifest rename,
\* environment, git, install, summary), the git commit is made before the install
\* command runs, and when the install command runs the manifest, if the template
\* has one, is at the target with the project's name.
C20_StepsInOrder ==
    [][StepsInOrder /\ (InstallRuns => (TemplateManifest \in DOMAIN fs => TargetNamed))]_vars

\* a run has made the git commit and then run the install command
C20_Witness ==
    /\ gpc = "done"
    /\ Len(cmds) = 4
    /\ cmds[3][1] = "git commit"
    /\ cmds[4][1] \in InstallCommands
    /\ TargetNamed

\* C19: when the harness has ended with a non-zero exit code, the test project
\* directory does not exist.
C19_FailureRemovesTestProject ==
    (hpc = "exited" /\ hexit # 0) => ~ Exists(fs, testProjectPath)

\* the git commands of the current run, in the order they were run
GitSeq == SelectSeq(cmds, LAMBDA c : c[1] \in GitCommands)

\* C27: the git commands of a run are a prefix of git init, git add, git commit,
\* in that order, each run with the target path as working directory; none is run
\* unless the working directory was changed to the target path (so none after a
\* failed chdir, and none before the git step), and a git step that reported
\* success has run all three.
C27_GitInsideTarget ==
    /\ Len(GitSeq) <= 3
    /\ \A i \in 1..Len(GitSeq) : GitSeq[i] = gitCommands(projectPath)[i]
    /\ Len(GitSeq) > 0 => (pcwd = projectPath /\ GitAttempted)
    /\ (GitAttempted /\ ~ GitWarned) => Len(GitSeq) = 3

\* a run whose git add failed: git init and git add were run in the target, the
\* commit was not, and the run went on to its end
C27_Witness ==
    /\ gpc = "done"
    /\ GitWarned
    /\ pcwd = projectPath
    /\ Len(GitSeq) = 2
    /\ GitSeq[2] = <<"git add .", projectPath>>

\* the paths below dir, relative to dir
Below(dir) == {Relative(dir, p) : p \in Subtree(fs, dir) \ {dir}}

\* two JSON objects have the same keys in the same order and, but for name, the
\* same values
SameButName(a, b) ==
    /\ Len(a) = Len(b)
    /\ \A i \in 1..Len(a) :
        /\ a[i][1] = b[i][1]
        /\ a[i][1] # "name" => a[i][2] = b[i][2]

\* C21: at the end of a successful run with install, git and environment setup
\* disabled, the target holds exactly the entries of the template; every entry
\* but the manifest is identical to the template's, and the manifest is the
\* template's JSON object (same keys, same order, same values) with the project
\* name as the value of name.
C21_TargetIsTemplateButName ==
    (gpc = "done" /\ AllOptionalStepsDisabled) =>
        /\ Below(projectPath) = Below(templateDir)
        /\ \A rel \in Below(templateDir) :
            IF rel = <<"package.json">>
            THEN /\ TargetNamed
                 /\ SameButName(fs[TemplateManifest].obj, fs[TargetManifest].obj)
            ELSE fs[Join(projectPath, rel)] = fs[Join(templateDir, rel)]

\* such a run, from a built template with a manifest and files in directories
C21_Witness ==
    /\ gpc = "done"
    /\ AllOptionalStepsDisabled
    /\ BuiltSuccessfully
    /\ TargetNamed
    /\ Get(fs[TemplateManifest].obj, "name") # Str(projectName)
    /\ \E rel \in Below(projectPath) : Len(rel) > 1

\* the command line of the current run names the project and gives
\* --package-manager, --skip-install and --skip-git
AllFlagsGiven ==
    /\ gpc \notin {"idle", "crashed"}
    /\ inv.arg # ""
    /\ inv.packageManager # ""
    /\ inv.skipInstall
    /\ inv.skipGit

\* C26: a run whose command line names the project and gives every flag, on a
\* target path that did not exist when it started, asks no question.
C26_NoQuestionWithAllFlags ==
    (AllFlagsGiven /\ projectPath # <<>> /\ projectPath \notin DOMAIN before) =>
        \A l \in genLog : l[1] # "ask"

HarnessSucceeded == <<"log", "CLI test completed successfully!">> \in hlog

\* C29: once the harness has ended successfully, whatever is built afterwards,
\* the template holds no copy of the test project directory.
C29_TestProjectNotInTemplate ==
    HarnessSucceeded => Join(templateDir, <<testProjectName>>) \notin DOMAIN fs

\* the entries of the source tree the walk comes to that are neither regular
\* files nor directories
SpecialEntries ==
    {p \in SourceEntries : fs[p].kind \notin {"file", "dir"} /\ ~ ExcludedAbove(p)}

\* C23: a build of a source tree with an entry that is neither a regular file
\* nor a directory never gets past its copy phase and never completes, and no
\* such entry is copied into the template.
C23_SpecialEntryIsError ==
    SpecialEntries # {} =>
        /\ bpc \notin {"process", "done"}
        /\ \A e \in SpecialEntries :
            /\ InTemplate(e) \notin DOMAIN fs
            /\ <<"Copied", Relative(rootDir, e)>> \notin buildLog

RootManifest == Join(rootDir, <<"package.json">>)

ManifestProcessed == bpc = "done" /\ <<"Processed", <<"package.json">> >> \in buildLog

\* the top-level keys the rewrite sets or deletes
RewrittenKeys == {"name", "version", "private", "bin", "files"}

\* the entries the rewrite deletes from the map under k
StrippedEntries(k) ==
    IF k = "devDependencies" THEN {cliDependencies[i] : i \in 1..Len(cliDependencies)}
    ELSE IF k = "scripts" THEN {cliScripts[i] : i \in 1..Len(cliScripts)}
    ELSE {}

\* the top-level keys of o that the rewrite neither sets nor deletes, in their order
KeptKeyOrder(o) ==
    LET kept == SelectSeq(o, LAMBDA e : e[1] \notin RewrittenKeys) IN
        [i \in 1..Len(kept) |-> kept[i][1]]

\* C24: after the manifest rewrite of a build, with S the manifest of the source
\* tree and T that of the template: name, version and private of T are
\* my-react-app, 0.1.0 and true; the keys of S other than name, version, private,
\* bin and files are the keys of T other than these, in the same order; each has
\* the value it has in S, except that scripts and devDependencies are the maps
\* of S without the named entries, the remaining entries in the order of S.
C24_RewriteFrame ==
    ManifestProcessed =>
        LET S == fs[RootManifest].obj
            T == fs[TemplateManifest].obj
        IN  /\ Get(T, "name") = Str("my-react-app")
            /\ Get(T, "version") = Str("0.1.0")
            /\ Get(T, "private") = JsTrue
            /\ KeptKeyOrder(T) = KeptKeyOrder(S)
            /\ \A k \in Keys(S) \ RewrittenKeys :
                IF Get(S, k).tag = "map"
                THEN Get(T, k) =
                        Map(SelectSeq(Get(S, k).m, LAMBDA e : e[1] \notin StrippedEntries(k)))
                ELSE Get(T, k) = Get(S, k)

\* a build has rewritten a manifest with entries to delete and to keep in both
\* maps, and a key after them
C24_Witness ==
    /\ ManifestProcessed
    /\ HasKey(fs[RootManifest].obj, "engines")
    /\ Get(fs[RootManifest].obj, "scripts") # Get(fs[TemplateManifest].obj, "scripts")
    /\ Get(fs[TemplateManifest].obj, "scripts").m # <<>>
    /\ Get(fs[RootManifest].obj, "devDependencies")
            # Get(fs[TemplateManifest].obj, "devDependencies")
    /\ Get(fs[TemplateManifest].obj, "devDependencies").m # <<>>

\* the packages listed in the map under k of the JSON object o
Listed(o, k) ==
    IF HasKey(o, k) /\ Get(o, k).tag = "map" THEN Keys(Get(o, k).m) ELSE {}

\* C25: after the manifest rewrite of a build, the template's manifest lists none
\* of chalk, commander, fs-extra, inquirer, ora, neither under devDependencies
\* nor under dependencies.
C25_NoCliPackages ==
    ManifestProcessed =>
        \A k \in {"devDependencies", "dependencies"} :
            Listed(fs[TemplateManifest].obj, k) \cap StrippedEntries("devDependencies") = {}

\* the walk has neither listed nor entered nor copied the output directory or
\* anything below it, and the template holds no entry called template
OutputNotWalked ==
    (BuildRunning \/ BuildEnded) =>
        /\ \A q \in listed : ~ IsPrefix(templateDir, q)
        /\ \A i \in 1..Len(bstack) : ~ IsPrefix(templateDir, bstack[i].src)
        /\ \A l \in buildLog : (l[1] = "Copied" /\ l[2] # <<>>) => l[2][1] # "template"
        /\ \A q \in Subtree(fs, templateDir) :
            \A i \in (Len(templateDir) + 1)..Len(q) : q[i] # "template"

\* C28: a build never lists, enters or copies the output directory, which lies
\* in the source root, nor anything below it, the template never holds a nested
\* template, and the walk of every build ends: the copy phase leads to the
\* manifest rewrite or to the failure of the build.
C28_OutputNotWalked ==
    /\ []OutputNotWalked
    /\ (bpc = "copy" ~> bpc \in {"process", "failed"})

\* a completed build whose walk met the output directory in the source root
C28_Witness ==
    /\ bpc = "done"
    /\ <<"Excluding", <<"template">> >> \in buildLog
    /\ IsPrefix(rootDir, templateDir)
    /\ templateDir \notin listed
    /\ <<"pkg", "template", "src", "main.tsx">> \in DOMAIN fs

\* C30: a failed build leaves no template directory, and a generator run that
\* has copied the template after some build has copied one left by a completed
\* build.
C30_OnlyCompleteTemplatesCopied ==
    /\ bpc = "failed" => templateDir \notin DOMAIN fs
    /\ (CopySucceeded /\ builds > 0) => bpc = "done"

\* a process is past its check and has not finished writing below the target
WritePhase == {"copy", "rename"}

\* C22 as stated: the two processes are never both past their check and still
\* writing below the same target.
C22_Original ==
    ~ (gpc \in WritePhase /\ rpc \in WritePhase /\ projectPath = RivalPath)

\* a step of a process from its check: it goes on only with the target absent
\* (found absent, or removed once the overwrite question was asked and
\* confirmed), and a declined process has found the target and changed nothing
CheckStep(pc, pcNext, log, path) ==
    /\ (pc = "check" /\ pcNext = "copy") =>
            /\ ~ Exists(fs', path)
            /\ Exists(fs, path) => <<"ask", "overwrite">> \in log
    /\ (pc = "check" /\ pcNext = "cancelled") =>
            /\ Exists(fs, path)
            /\ fs' = fs
            /\ <<"ask", "overwrite">> \in log

\* C22: the target is guarded by the existence check and the overwrite question
\* only: each of two processes on the same target passes its check only with the
\* target absent, found so or removed after a confirmed overwrite question, and
\* a process that is declined changes nothing; so a process that checks after
\* the other has created the target is stopped unless the overwrite is confirmed.
C22_GuardedByCheckOnly ==
    [][/\ CheckStep(gpc, gpc', genLog', projectPath)
       /\ CheckStep(rpc, rpc', rlog', RivalPath)]_vars

\* the second process found the target the first one had created, and was declined
C22_Witness ==
    /\ rpc = "cancelled"
    /\ gpc = "done"
    /\ projectPath = RivalPath
    /\ projectPath \notin DOMAIN before
    /\ TargetNamed

====
